---- MODULE Spec2Model ----
(***************************************************************************)
(* Memory Aware Synapses bookkeeping of utils/mas_utils.py: the store of   *)
(* regularization parameters (reg_params) of the shared model, the         *)
(* layer-freezing policy and the two omega estimators.                     *)
(***************************************************************************)
EXTENDS Integers, Sequences, FiniteSets, TLC

VARIABLES
    features,       \* model.tmodel.features._modules: the layer types, in forward order
    requires_grad,  \* qualified parameter name -> param.requires_grad
    data,           \* qualified parameter name -> param.data (a tensor)
    reg_params,     \* model.reg_params: key -> record (a Python dict of dicts)
    freeze_ret,     \* what the last create_freeze_layers call returned
    last,           \* the last call: its name, its inputs, what it raised
    pre,            \* reg_params and data as they were when the last call started
    stage,          \* position in the per-task sequence of the training loop
    omega_t1,       \* reg_params as left by task 1's consolidation
    calls,          \* number of calls made so far
    steps,          \* number of optimizer steps taken so far
    est             \* the last estimator run: its inputs, its events, what it raised

vars == <<features, requires_grad, data, reg_params, freeze_ret, last, pre,
          stage, omega_t1, calls, steps, est>>

----------------------------------------------------------------------------
(* Bounds of the model. *)

MaxStack == 4        \* layers of the feature stack the freezing policy is run on
MaxK == 3            \* largest no_of_layers passed to create_freeze_layers
TensorLen == 2       \* elements of every parameter tensor
MaxCalls == 3        \* calls of the store's operations made on one model
MaxSteps == 2        \* optimizer steps taken on one model
MaxBatches == 3      \* batches a loader yields
MaxBatchSize == 3    \* samples of a batch
MaxUnits == 2        \* output units of the backbone

----------------------------------------------------------------------------
(* The backbone: layers, parameters and their qualified names. *)

RECURSIVE SeqsUpTo(_, _)
\* every sequence over S of length 1..n
SeqsUpTo(S, n) ==
    IF n = 0 THEN {}
    ELSE LET shorter == SeqsUpTo(S, n - 1)
         IN  {<<x>> : x \in S} \cup shorter \cup
             {Append(s, x) : s \in shorter, x \in S}

RECURSIVE Concat(_)
Concat(ss) == IF ss = <<>> THEN <<>> ELSE Head(ss) \o Concat(Tail(ss))

Range(s) == {s[i] : i \in DOMAIN s}

\* the head of the backbone: model.tmodel.classifier
Classifier == <<"Dropout", "Linear">>

\* the parameters a layer registers, in registration order
LayerParams(kind) ==
    IF kind \in {"Conv2d", "Linear"} THEN <<"weight", "bias">> ELSE <<>>

\* the key of the i-th child of a Sequential (Python counts from 0)
ModuleKey(i) == ToString(i - 1)

\* the qualified names of the parameters of the i-th layer of a sub-module
LayerNames(prefix, layers, i) ==
    [j \in DOMAIN LayerParams(layers[i]) |->
        prefix \o "." \o ModuleKey(i) \o "." \o LayerParams(layers[i])[j]]

\* model.tmodel.named_parameters(): names in registration order
NamedParameters(feats) ==
    Concat([i \in DOMAIN feats |-> LayerNames("features", feats, i)]) \o
    Concat([i \in DOMAIN Classifier |-> LayerNames("classifier", Classifier, i)])

\* the names of the parameters of model.tmodel.classifier
ClassifierNames ==
    Range(Concat([i \in DOMAIN Classifier |-> LayerNames("classifier", Classifier, i)]))

Zeros == [i \in 1..TensorLen |-> 0]

----------------------------------------------------------------------------
(* create_freeze_layers *)

\* temp_list: the keys of the convolutional layers, in forward order
ConvKeys(feats) ==
    LET F[i \in 0..Len(feats)] ==
            IF i = 0 THEN <<>>
            ELSE IF feats[i] = "Conv2d" THEN Append(F[i - 1], ModuleKey(i))
            ELSE F[i - 1]
    IN  F[Len(feats)]

\* name_1 and name_2, the names appended for one selected key
FreezeNames(temp_key) ==
    <<"features." \o temp_key \o "weight", "features." \o temp_key \o "bias">>

\* a variant that counts from the front of temp_list
PickFromFront(temp_list, num) == temp_list[num]

\* the key picked by temp_list[-1 * num]
PickFromEnd(temp_list, num) == temp_list[Len(temp_list) + 1 - num]

\* the parameters of model.tmodel.features[int(temp_key)]
KeyParams(temp_key) ==
    {"features." \o temp_key \o "." \o p : p \in {"weight", "bias"}}

\* the whole call: the requires_grad it leaves, what it returns, what it raises
create_freeze_layers(feats, no_of_layers) ==
    LET names == Range(NamedParameters(feats))
        base == [n \in names |-> n \in ClassifierNames]
        temp_list == ConvKeys(feats)
        \* the loop of lines 298-309 after num rounds
        Loop[num \in 0..no_of_layers] ==
            IF num = 0
            THEN [rg |-> base, freeze_layers |-> <<>>, raised |-> "none"]
            ELSE LET before == Loop[num - 1]
                 IN  IF before.raised # "none" THEN before
                     ELSE IF num > Len(temp_list)
                     THEN [before EXCEPT !.raised = "IndexError"]
                     ELSE LET temp_key == PickFromEnd(temp_list, num)
                          IN  [rg |-> [n \in names |->
                                         IF n \in KeyParams(temp_key) THEN TRUE
                                         ELSE before.rg[n]],
                               freeze_layers |->
                                   before.freeze_layers \o FreezeNames(temp_key),
                               raised |-> "none"]
        end == Loop[no_of_layers]
    IN  IF no_of_layers = 0
        THEN [rg |-> base, raised |-> "none",
              ret |-> [model |-> FALSE, freeze_layers |-> <<>>]]
        ELSE IF end.raised # "none"
        THEN [rg |-> end.rg, raised |-> end.raised,
              ret |-> [model |-> FALSE, freeze_layers |-> <<>>]]
        ELSE [rg |-> end.rg, raised |-> "none",
              ret |-> [model |-> TRUE, freeze_layers |-> end.freeze_layers]]

----------------------------------------------------------------------------
(* The store of regularization parameters. *)

\* a store key that is the parameter object itself
ParamKey(n) == [kind |-> "param", id |-> n]

\* a store key that is the parameter's qualified name, a string
NameKey(n) == [kind |-> "str", id |-> n]

\* the bookkeeping slot of a freshly wrapped model
EmptyStore == [k \in {} |-> [omega |-> Zeros, init_val |-> Zeros]]

\* torch.add on two tensors of one shape
TensorAdd(a, b) == [i \in DOMAIN a |-> a[i] + b[i]]

\* d with d[field] = value, the field added when d lacks it
DictSet(d, field, value) ==
    [f \in DOMAIN d \cup {field} |-> IF f = field THEN value ELSE d[f]]

\* d after del d[field]
DictDel(d, field) == [f \in DOMAIN d \ {field} |-> d[f]]

\* the test of line 38: does init_reg_params make a record for the parameter
InitKeeps(name, freeze_layers) == name \notin Range(freeze_layers)

\* the whole call: the dictionary that replaces model.reg_params
init_reg_params(feats, dat, freeze_layers) ==
    LET names == NamedParameters(feats)
        kept == {n \in Range(names) : InitKeeps(n, freeze_layers)}
    IN  [k \in {ParamKey(n) : n \in kept} |->
            [omega |-> Zeros, init_val |-> dat[k.id]]]

\* a variant that keeps the init_val of the first task
AcrossRecordStaleInit(param_dict, value) ==
    DictSet([param_dict EXCEPT !.omega = Zeros], "prev_omega", param_dict.omega)

\* lines 86-99: the record of one parameter after the re-initialization
AcrossRecord(param_dict, value) ==
    DictSet([param_dict EXCEPT !.omega = Zeros, !.init_val = value],
            "prev_omega", param_dict.omega)

\* a variant that looks no parameter up that the list names or that has no record
AcrossSkipsMissing(store, name, freeze_layers) ==
    name \notin Range(freeze_layers) /\ ParamKey(name) \in DOMAIN store

\* the test of line 80: is the parameter looked up and re-initialized
AcrossVisits(store, name, freeze_layers) == name \notin Range(freeze_layers)

\* the whole call: the store it leaves and what it raises
init_reg_params_across_tasks(feats, dat, store, freeze_layers) ==
    LET names == NamedParameters(feats)
        Loop[i \in 0..Len(names)] ==
            IF i = 0 THEN [store |-> store, raised |-> "none"]
            ELSE LET before == Loop[i - 1]
                     key == ParamKey(names[i])
                 IN  IF before.raised # "none" THEN before
                     ELSE IF ~AcrossVisits(before.store, names[i], freeze_layers)
                     THEN before
                     ELSE IF key \notin DOMAIN before.store
                     THEN [before EXCEPT !.raised = "KeyError"]
                     ELSE [before EXCEPT !.store[key] =
                              AcrossRecord(before.store[key], dat[names[i]])]
    IN  Loop[Len(names)]

\* store with store[key] = value, the key added when the store lacks it
StorePut(store, key, value) ==
    [k \in DOMAIN store \cup {key} |-> IF k = key THEN value ELSE store[k]]

\* the whole call: the store it leaves and what it raises
consolidate_reg_params(feats, store) ==
    LET names == NamedParameters(feats)
        Loop[i \in 0..Len(names)] ==
            IF i = 0 THEN [store |-> store, raised |-> "none"]
            ELSE LET before == Loop[i - 1]
                     key == NameKey(names[i])
                 IN  IF before.raised # "none" THEN before
                     ELSE IF key \notin DOMAIN before.store
                     THEN [before EXCEPT !.raised = "KeyError"]
                     ELSE IF "prev_omega" \notin DOMAIN before.store[key]
                     THEN [before EXCEPT !.raised = "KeyError"]
                     ELSE LET param_dict == before.store[key]
                              new_omega == TensorAdd(param_dict.prev_omega,
                                                     param_dict.omega)
                              merged == [DictDel(param_dict, "prev_omega")
                                             EXCEPT !.omega = new_omega]
                          IN  [before EXCEPT !.store =
                                  StorePut(StorePut(before.store, key, merged),
                                           ParamKey(names[i]), merged)]
    IN  Loop[Len(names)]

----------------------------------------------------------------------------
(* The omega estimators, statement by statement. *)

\* the names bound at module level in mas_utils.py: its imports and functions
ModuleGlobals ==
    {"print_function", "torch", "nn", "optim", "np", "torchvision", "datasets",
     "models", "transforms", "copy", "os", "shutil", "init_reg_params",
     "init_reg_params_across_tasks", "consolidate_reg_params",
     "compute_omega_grads_norm", "compute_omega_grads_vector", "sanity_model",
     "create_freeze_layers"}

\* the names bound when an estimator is entered: its parameters and the globals
EntryNames == {"model", "dataloader", "optimizer"} \cup ModuleGlobals

\* the names an estimator assigns somewhere in its body: its local variables
LocalNames ==
    {"data", "inputs", "labels", "device", "outputs", "l2_norm",
     "squared_l2_norm", "sum_norm", "index", "dataloader", "unit_no", "ith_node",
     "targets"}

NoEvent == [ev |-> "none", retain |-> "-", final |-> "-", index |-> 0, size |-> 0]

Event(ev) == [NoEvent EXCEPT !.ev = ev]

Backward(retain) == [NoEvent EXCEPT !.ev = "backward", !.retain = retain]

Step(final, index, size) ==
    [ev |-> "step", retain |-> "-", final |-> final, index |-> index, size |-> size]

\* a statement: the names it reads, binds and deletes, the call it makes on
\* the model or the optimizer, and what that call raises whatever it is given
Stmt(uses, defs, dels, event) ==
    [uses |-> uses, defs |-> defs, dels |-> dels, event |-> event, raises |-> "none"]

\* running statements in order from the names bound and the events so far:
\* a read of an unbound name raises, and ends the run
Run(stmts, start) ==
    LET Loop[i \in 0..Len(stmts)] ==
            IF i = 0 THEN start
            ELSE LET before == Loop[i - 1]
                     st == stmts[i]
                 IN  IF before.raised # "none" THEN before
                     ELSE IF \E n \in st.uses : n \notin before.bound
                     THEN [before EXCEPT !.raised =
                              IF \E n \in st.uses \ before.bound : n \notin LocalNames
                              THEN "NameError" ELSE "UnboundLocalError"]
                     ELSE IF st.raises # "none"
                     THEN [before EXCEPT !.raised = st.raises]
                     ELSE [bound |-> (before.bound \cup st.defs) \ st.dels,
                           events |-> IF st.event.ev = "none" THEN before.events
                                      ELSE Append(before.events, st.event),
                           raised |-> "none"]
    IN  Loop[Len(stmts)]

\* lines 160-189: the body of the norm estimator's loop for one batch
NormBatch(index, size) ==
    << Stmt({"data"}, {"inputs", "labels"}, {}, NoEvent),
       Stmt({"use_gpu"}, {}, {}, NoEvent),
       Stmt({"optimizer"}, {}, {}, Event("zero_grad")),
       Stmt({"model", "inputs"}, {"outputs"}, {}, Event("forward")),
       Stmt({}, {}, {"inputs"}, NoEvent),
       Stmt({"torch", "outputs"}, {"l2_norm"}, {}, NoEvent),
       Stmt({}, {}, {"outputs"}, NoEvent),
       Stmt({"l2_norm"}, {"squared_l2_norm"}, {}, NoEvent),
       Stmt({}, {}, {"squared_l2_norm"}, NoEvent),
       Stmt({"torch", "squared_l2_norm"}, {"sum_norm"}, {}, NoEvent),
       Stmt({"sum_norm"}, {}, {}, Backward("no")),
       Stmt({"optimizer", "model", "index", "labels"}, {}, {},
            Step("-", index, size)),
       Stmt({}, {}, {"labels"}, NoEvent),
       Stmt({"index"}, {"index"}, {}, NoEvent) >>

\* the whole call on a loader, given as the sizes of the batches it yields
compute_omega_grads_norm(loader) ==
    LET entry == Run(<< Stmt({"model"}, {}, {}, Event("eval")),
                        Stmt({}, {"index"}, {}, NoEvent),
                        Stmt({"dataloader"}, {}, {}, NoEvent) >>,
                     [bound |-> EntryNames, events |-> <<>>, raised |-> "none"])
        Loop[i \in 0..Len(loader)] ==
            IF i = 0 THEN [run |-> entry, index |-> 0]
            ELSE LET before == Loop[i - 1]
                 IN  IF before.run.raised # "none" THEN before
                     ELSE [run |-> Run(NormBatch(before.index, loader[i]),
                                       [before.run EXCEPT
                                           !.bound = @ \cup {"data"}]),
                           index |-> before.index + 1]
    IN  Loop[Len(loader)].run

\* lines 223-236: the body of the vector estimator's loop for one output unit
VectorUnit(unit_no, units, index, size) ==
    << Stmt({"outputs", "unit_no"}, {"ith_node"}, {}, NoEvent),
       Stmt({"torch", "ith_node"}, {"targets"}, {}, NoEvent),
       Stmt({"node_no", "outputs"}, {}, {}, NoEvent),
       Stmt({"targets"}, {}, {},
            Backward(IF unit_no = units - 1 THEN "no" ELSE "yes")),
       Stmt({"optimizer", "model", "index", "labels"}, {}, {},
            Step("no", index, size)),
       Stmt({"optimizer"}, {}, {}, Event("zero_grad")) >>

\* lines 210-240: the body of the vector estimator's loop for one batch
VectorBatch(units, index, size) ==
    << Stmt({"data"}, {"inputs", "labels"}, {}, NoEvent),
       Stmt({"use_gpu"}, {}, {}, NoEvent),
       Stmt({"optimizer"}, {}, {}, Event("zero_grad")),
       Stmt({"model", "inputs"}, {"outputs"}, {}, Event("forward")) >>
    \o Concat([u \in 1..units |->
                 <<Stmt({"outputs"}, {"unit_no"}, {}, NoEvent)>> \o
                 VectorUnit(u - 1, units, index, size)])
    \o << Stmt({"optimizer", "model", "index", "labels"}, {}, {},
               Step("yes", index, size)),
          Stmt({"index"}, {"index"}, {}, NoEvent) >>

\* the whole call on a loader and a backbone of so many output units
compute_omega_grads_vector(loader, units) ==
    LET entry == Run(<< Stmt({"model"}, {}, {}, Event("train")),
                        [Stmt({"model"}, {}, {}, Event("eval"))
                            EXCEPT !.raises = "TypeError"],
                        Stmt({}, {"index"}, {}, NoEvent),
                        Stmt({"dset_loaders"}, {"dataloader"}, {}, NoEvent) >>,
                     [bound |-> EntryNames, events |-> <<>>, raised |-> "none"])
        Loop[i \in 0..Len(loader)] ==
            IF i = 0 THEN [run |-> entry, index |-> 0]
            ELSE LET before == Loop[i - 1]
                 IN  IF before.run.raised # "none" THEN before
                     ELSE [run |-> Run(VectorBatch(units, before.index, loader[i]),
                                       [before.run EXCEPT
                                           !.bound = @ \cup {"data"}]),
                           index |-> before.index + 1]
    IN  Loop[Len(loader)].run

----------------------------------------------------------------------------
(* The per-task sequence of the training loop, followed as calls are made. *)

\* the stage reached from stage s by a call of op that raised what it raised
NextStage(s, op, raised) ==
    CASE op = "create_freeze_layers" -> s
      [] op = "init_reg_params" /\ s = "start" /\ raised = "none" -> "t1_init"
      [] op = "train" /\ s \in {"t1_init", "t2_init"} -> s
      [] op = "omega" /\ s \in {"t1_init", "t1_omega"} -> "t1_omega"
      [] op = "omega" /\ s \in {"t2_init", "t2_omega"} -> "t2_omega"
      [] op = "consolidate_reg_params" /\ s = "t1_omega" ->
            IF raised = "none" THEN "t1_done" ELSE "t1_failed"
      [] op = "init_reg_params_across_tasks" /\ s = "t1_done" /\ raised = "none" ->
            "t2_init"
      [] op = "consolidate_reg_params" /\ s = "t2_omega" ->
            IF raised = "none" THEN "t2_done" ELSE "t2_failed"
      [] OTHER -> "off"

----------------------------------------------------------------------------
(* The calls. *)

NoCall == [op |-> "none", k |-> 0, freeze_layers |-> <<>>, raised |-> "none"]

NoRun == [op |-> "none", loader |-> <<>>, units |-> 0, events |-> <<>>,
          raised |-> "none"]

\* the freeze lists a caller passes: none, the list create_freeze_layers
\* returned, the names of the head's parameters
FreezeInputs == {<<>>, freeze_ret.freeze_layers,
                 <<"classifier.1.weight", "classifier.1.bias">>}

\* what every call does to the record of the calls
Logged(op, k, fl, raised) ==
    /\ last' = [op |-> op, k |-> k, freeze_layers |-> fl, raised |-> raised]
    /\ pre' = [reg_params |-> reg_params, data |-> data]
    /\ stage' = NextStage(stage, op, raised)

Called(op, k, fl, raised) ==
    /\ calls < MaxCalls
    /\ calls' = calls + 1
    /\ steps' = steps
    /\ Logged(op, k, fl, raised)

Stepped(op) ==
    /\ steps < MaxSteps
    /\ steps' = steps + 1
    /\ calls' = calls
    /\ Logged(op, 0, <<>>, "none")

\* what one optimizer step adds to the tensor it writes
Delta == [i \in 1..TensorLen |-> i]

CreateFreezeLayers(k) ==
    LET r == create_freeze_layers(features, k)
    IN  /\ Called("create_freeze_layers", k, <<>>, r.raised)
        /\ requires_grad' = r.rg
        /\ freeze_ret' = IF r.raised = "none" THEN r.ret ELSE freeze_ret
        /\ UNCHANGED <<features, data, reg_params, omega_t1, est>>

InitRegParams(fl) ==
    /\ Called("init_reg_params", 0, fl, "none")
    /\ reg_params' = init_reg_params(features, data, fl)
    /\ UNCHANGED <<features, requires_grad, data, freeze_ret, omega_t1, est>>

InitRegParamsAcrossTasks(fl) ==
    LET r == init_reg_params_across_tasks(features, data, reg_params, fl)
    IN  /\ Called("init_reg_params_across_tasks", 0, fl, r.raised)
        /\ reg_params' = r.store
        /\ UNCHANGED <<features, requires_grad, data, freeze_ret, omega_t1, est>>

ConsolidateRegParams ==
    LET r == consolidate_reg_params(features, reg_params)
    IN  /\ Called("consolidate_reg_params", 0, <<>>, r.raised)
        /\ reg_params' = r.store
        /\ omega_t1' = IF stage = "t1_omega" /\ r.raised = "none"
                       THEN r.store ELSE omega_t1
        /\ UNCHANGED <<features, requires_grad, data, freeze_ret, est>>

NormRun(loader) ==
    LET r == compute_omega_grads_norm(loader)
    IN  /\ Logged("compute_omega_grads_norm", 0, <<>>, r.raised)
        /\ est' = [op |-> "norm", loader |-> loader, units |-> 0,
                   events |-> r.events, raised |-> r.raised]
        /\ UNCHANGED <<features, requires_grad, data, reg_params, freeze_ret,
                       omega_t1, calls, steps>>

VectorRun(loader, units) ==
    LET r == compute_omega_grads_vector(loader, units)
    IN  /\ Logged("compute_omega_grads_vector", 0, <<>>, r.raised)
        /\ est' = [op |-> "vector", loader |-> loader, units |-> units,
                   events |-> r.events, raised |-> r.raised]
        /\ UNCHANGED <<features, requires_grad, data, reg_params, freeze_ret,
                       omega_t1, calls, steps>>

\* a training step of the optimizer moves one trainable parameter
Train(n) ==
    /\ requires_grad[n]
    /\ Stepped("train")
    /\ data' = [data EXCEPT ![n] = TensorAdd(data[n], Delta)]
    /\ UNCHANGED <<features, requires_grad, reg_params, freeze_ret, omega_t1, est>>

\* an accumulation step of the optimizer writes the omega of one record
OmegaStep(key) ==
    /\ key \in DOMAIN reg_params
    /\ Stepped("omega")
    /\ reg_params' = [reg_params EXCEPT ![key].omega = TensorAdd(@, Delta)]
    /\ UNCHANGED <<features, requires_grad, data, freeze_ret, omega_t1, est>>

----------------------------------------------------------------------------
(* The model after construction, and the life cycle of its store. *)

InitModel(stacks) ==
    /\ features \in stacks
    /\ requires_grad = [n \in Range(NamedParameters(features)) |-> TRUE]
    /\ data = [n \in Range(NamedParameters(features)) |-> Zeros]
    /\ reg_params = EmptyStore
    /\ freeze_ret = [model |-> FALSE, freeze_layers |-> <<>>]
    /\ last = NoCall
    /\ pre = [reg_params |-> EmptyStore, data |-> data]
    /\ stage = "start"
    /\ omega_t1 = EmptyStore
    /\ calls = 0
    /\ steps = 0
    /\ est = NoRun

\* the feature stack the store's life cycle is run on
Backbone == <<"Conv2d", "ReLU">>

Init == InitModel({Backbone})

Next ==
    \/ \E k \in 0..MaxK : CreateFreezeLayers(k)
    \/ \E fl \in FreezeInputs : InitRegParams(fl)
    \/ \E fl \in FreezeInputs : InitRegParamsAcrossTasks(fl)
    \/ ConsolidateRegParams
    \/ \E n \in DOMAIN data : Train(n)
    \/ \E key \in DOMAIN reg_params : OmegaStep(key)

Spec == Init /\ [][Next]_vars

(* The layer-freezing policy on its own, on deeper feature stacks. *)

InitFreeze == InitModel(SeqsUpTo({"Conv2d", "ReLU", "MaxPool2d"}, MaxStack))

NextFreeze == \E k \in 0..MaxK : CreateFreezeLayers(k)

SpecFreeze == InitFreeze /\ [][NextFreeze]_vars

(* The estimators on their own, on every loader within the bounds. *)

Loaders == {<<>>} \cup SeqsUpTo(1..MaxBatchSize, MaxBatches)

NextEst ==
    \/ \E loader \in Loaders : NormRun(loader)
    \/ \E loader \in Loaders, units \in 1..MaxUnits : VectorRun(loader, units)

SpecEst == Init /\ [][NextEst]_vars

----------------------------------------------------------------------------
(* The claims. *)

Names == Range(NamedParameters(features))

\* the positions of the convolutional layers of the feature stack
ConvIdx == {i \in DOMAIN features : features[i] = "Conv2d"}

\* the positions of the k convolutional layers closest to the head
ClosestConv(k) == {i \in ConvIdx : Cardinality({j \in ConvIdx : j >= i}) <= k}

OnlyEvents(events, kinds) == SelectSeq(events, LAMBDA e : e.ev \in kinds)

\* C3: for every count k from 0 to the number of convolutional layers,
\* create_freeze_layers returns a freeze list of exactly 2*k entries: "features." +
\* key + "weight" and "features." + key + "bias" for each of the k convolutional
\* keys closest to the head, and for no other key.
C3_FreezeList ==
    (last.op = "create_freeze_layers" /\ last.k <= Cardinality(ConvIdx)) =>
        /\ last.raised = "none"
        /\ Len(freeze_ret.freeze_layers) = 2 * last.k
        /\ Range(freeze_ret.freeze_layers) =
               UNION {{"features." \o ModuleKey(i) \o "weight",
                       "features." \o ModuleKey(i) \o "bias"} :
                      i \in ClosestConv(last.k)}

\* C3's case: two of at least three convolutional layers are selected, with
\* another kind of layer among the stack's layers.
C3_Witness ==
    /\ last.op = "create_freeze_layers"
    /\ last.raised = "none"
    /\ last.k = 2
    /\ Cardinality(ConvIdx) >= 3
    /\ ConvIdx # DOMAIN features
    /\ Len(freeze_ret.freeze_layers) = 4

AcrossRecordOk(n) ==
    LET key == ParamKey(n)
    IN  /\ key \in DOMAIN reg_params
        /\ "prev_omega" \in DOMAIN reg_params[key]
        /\ reg_params[key].prev_omega = pre.reg_params[key].omega
        /\ reg_params[key].omega = Zeros
        /\ reg_params[key].init_val = pre.data[n]

\* C5 as stated: after init_reg_params_across_tasks, every parameter that had a
\* record before the call has previous_omega equal to its old omega, a zero omega
\* and init_val equal to the parameter's value at the time of the call.
C5_Original ==
    last.op = "init_reg_params_across_tasks" =>
        \A n \in Names : ParamKey(n) \in DOMAIN pre.reg_params => AcrossRecordOk(n)

\* C5 as amended: after a call of init_reg_params_across_tasks that returns, every
\* parameter whose qualified name is not in the freeze list passed to that call
\* and that had a record before the call has previous_omega equal to its old
\* omega, a zero omega and init_val equal to the parameter's value at the time of
\* the call.
C5_Amended ==
    (last.op = "init_reg_params_across_tasks" /\ last.raised = "none") =>
        \A n \in Names :
            (n \notin Range(last.freeze_layers) /\ ParamKey(n) \in DOMAIN pre.reg_params)
                => AcrossRecordOk(n)

\* C5's case: the call returned, and it re-initialized a record whose omega was
\* not zero for a parameter that had moved since its init_val was taken.
C5_Witness ==
    /\ last.op = "init_reg_params_across_tasks"
    /\ last.raised = "none"
    /\ \E n \in Names :
          /\ n \notin Range(last.freeze_layers)
          /\ ParamKey(n) \in DOMAIN pre.reg_params
          /\ pre.reg_params[ParamKey(n)].omega # Zeros
          /\ pre.reg_params[ParamKey(n)].init_val # pre.data[n]

\* C6 as stated: init_reg_params_across_tasks signals a lookup failure whenever
\* some parameter the backbone enumerates has no record in the store, and it
\* never creates a record.
C6_Original ==
    last.op = "init_reg_params_across_tasks" =>
        /\ (\E n \in Names : ParamKey(n) \notin DOMAIN pre.reg_params)
               => last.raised = "KeyError"
        /\ DOMAIN reg_params = DOMAIN pre.reg_params

\* C6 as amended: init_reg_params_across_tasks signals a lookup failure whenever
\* some enumerated parameter whose qualified name is not in the freeze list passed
\* to the call has no record in the store, and it never creates a record.
C6_Amended ==
    last.op = "init_reg_params_across_tasks" =>
        /\ (\E n \in Names : /\ n \notin Range(last.freeze_layers)
                             /\ ParamKey(n) \notin DOMAIN pre.reg_params)
               => last.raised = "KeyError"
        /\ DOMAIN reg_params = DOMAIN pre.reg_params

\* C6's case: the call was made before init_reg_params had populated the store,
\* and it raised.
C6_Witness ==
    /\ last.op = "init_reg_params_across_tasks"
    /\ pre.reg_params = EmptyStore
    /\ reg_params = EmptyStore
    /\ last.raised = "KeyError"

\* C1: after consolidate_reg_params, every record that held previous_omega = A
\* and omega = B before the call has omega = A + B elementwise and no
\* previous_omega field.
C1_Consolidate ==
    last.op = "consolidate_reg_params" =>
        \A key \in DOMAIN pre.reg_params :
            "prev_omega" \in DOMAIN pre.reg_params[key] =>
                /\ key \in DOMAIN reg_params
                /\ "prev_omega" \notin DOMAIN reg_params[key]
                /\ reg_params[key].omega =
                       TensorAdd(pre.reg_params[key].prev_omega,
                                 pre.reg_params[key].omega)

\* C8: consolidate_reg_params fails on no record, leaves a record without a
\* previous_omega field as it was, and adds or removes no key of the store.
C8_ConsolidateFrame ==
    (/\ last.op = "consolidate_reg_params"
     /\ \E key \in DOMAIN pre.reg_params :
           "prev_omega" \notin DOMAIN pre.reg_params[key]) =>
        /\ last.raised = "none"
        /\ DOMAIN reg_params = DOMAIN pre.reg_params
        /\ \A key \in DOMAIN pre.reg_params :
              "prev_omega" \notin DOMAIN pre.reg_params[key] =>
                  reg_params[key] = pre.reg_params[key]

\* C4: in the per-task sequence run for task 1 and then task 2, both
\* consolidations complete, and after task 2's consolidation every tracked
\* parameter's omega is elementwise at least its omega after task 1's.
C4_Monotonic ==
    /\ stage \notin {"t1_failed", "t2_failed"}
    /\ stage = "t2_done" =>
          \A key \in DOMAIN omega_t1 :
              /\ key \in DOMAIN reg_params
              /\ \A i \in 1..TensorLen :
                    reg_params[key].omega[i] >= omega_t1[key].omega[i]

\* C2: after init_reg_params with freeze list F, the store has a record for
\* exactly the parameters with requires_grad set whose qualified name is not in F.
C2_StoreComplete ==
    last.op = "init_reg_params" =>
        DOMAIN reg_params =
            {ParamKey(n) : n \in {m \in Names : /\ requires_grad[m]
                                                /\ m \notin Range(last.freeze_layers)}}

\* C7: after create_freeze_layers with k >= 1 and init_reg_params given the list
\* it returned, the store has no record for the weight or the bias of a selected
\* convolutional layer: every entry of the list is the qualified name of one of
\* those parameters.
C7_Exempt ==
    (/\ last.op = "init_reg_params"
     /\ freeze_ret.model
     /\ last.freeze_layers = freeze_ret.freeze_layers) =>
        /\ Range(last.freeze_layers) \subseteq Names
        /\ \A i \in ClosestConv(Len(last.freeze_layers) \div 2) :
              \A n \in Range(LayerNames("features", features, i)) :
                  ParamKey(n) \notin DOMAIN reg_params

\* the backward passes and accumulation steps of the vector estimator on a loader
ExpectedVector(loader, units) ==
    Concat([i \in DOMAIN loader |->
        Concat([u \in 1..units |->
            <<Backward(IF u = units THEN "no" ELSE "yes"),
              Step("no", i - 1, loader[i])>>])
        \o <<Step("yes", i - 1, loader[i])>>])

\* C9: the vector estimator runs, for every batch and each output unit in turn, a
\* backward pass (retaining the graph except for the last unit), an accumulation
\* step with the final flag false and a gradient zeroing, then one accumulation
\* step with the final flag true; the steps of a batch carry its index, counted
\* from 0, and its size.
C9_VectorOrder ==
    (est.op = "vector" /\ est.loader # <<>>) =>
        /\ est.raised = "none"
        /\ OnlyEvents(est.events, {"backward", "step"}) =
               ExpectedVector(est.loader, est.units)
        /\ \A i \in DOMAIN est.events :
              (est.events[i].ev = "step" /\ est.events[i].final = "no") =>
                  /\ i < Len(est.events)
                  /\ est.events[i + 1].ev = "zero_grad"

\* the backward passes and accumulation steps of the norm estimator on a loader
ExpectedNorm(loader) ==
    Concat([i \in DOMAIN loader |->
        <<Backward("no"), Step("-", i - 1, loader[i])>>])

\* C10: on a loader of n batches the norm estimator calls the accumulation step
\* exactly n times, once per batch after that batch's backward pass, the i-th
\* call with batch index i and the batch's size, and writes no parameter value.
C10_NormSteps ==
    est.op = "norm" =>
        /\ est.raised = "none"
        /\ OnlyEvents(est.events, {"backward", "step"}) = ExpectedNorm(est.loader)
        /\ data = pre.data

====
